---------------------------- MODULE Spec2Model ----------------------------
(***************************************************************************)
(* A model of qri's update service (package update: Start, Factory,        *)
(* JobToCmd, DatasetToJob, ShellScriptToJob, processJobError) and of the   *)
(* p2p announce handler (QriNode.handleConnected).                         *)
(*                                                                         *)
(* The module holds one specification per part of the program:             *)
(*   SpecCmd    command construction (JobToCmd)                            *)
(*   SpecRun    the runner function returned by Factory                    *)
(*   SpecJob    the job constructors                                       *)
(*   SpecStart  Start / start                                              *)
(*   SpecCron   the scheduler loop that start hands Factory to             *)
(*   SpecP2P    handleConnected and its expiry timers                      *)
(* A part that a specification does not exercise keeps its initial value.  *)
(***************************************************************************)
EXTENDS Naturals, Sequences, FiniteSets, TLC

VARIABLES
    \* ---- command construction
    cjob,       \* the Job handed to JobToCmd
    ccmd,       \* the *exec.Cmd returned by the latest call
    ccalled,    \* JobToCmd was called on cjob
    cagree      \* every call so far returned the same command as the one before

cmdVars == <<cjob, ccmd, ccalled, cagree>>

VARIABLES
    \* ---- one invocation of the function Factory returns
    rjob,       \* the Job it is called with
    rchild,     \* what the child process does once run: exit code, stderr text
    rpc,        \* "ready" | "returned"
    rcmd,       \* what JobToCmd returned
    rerrBuf,    \* errBuf: nil, or the buffer standard error is teed into
    rruns,      \* calls of cmd.Run(), each running one child process
    rresult     \* the error returned

runVars == <<rjob, rchild, rpc, rcmd, rerrBuf, rruns, rresult>>

VARIABLES
    \* ---- one call of a job constructor
    jcall,      \* the constructor called and its arguments
    jpc,        \* "ready" | "returned"
    jret        \* the (job, err) pair returned

jobVars == <<jcall, jpc, jret>>

VARIABLES
    \* ---- invocations of Start
    spc,        \* where each invocation is
    sarg,       \* its arguments: daemonize, updateCfg
    sprobe,     \* the outcome of its Ping: "none" | "ok" | "failed"
    sdid,       \* the steps it has performed
    sret,       \* the error it returned
    listening   \* an update service answers at the configured address

startVars == <<spc, sarg, sprobe, sdid, sret, listening>>

VARIABLES
    \* ---- the scheduler loop
    now,        \* the clock
    cnext,      \* each job's next due instant
    crunning,   \* the job is Running
    cinflight,  \* Runner invocations in flight for the job
    cjobrec,    \* the job's run-history fields as persisted
    clog        \* the run records appended, per job

cronVars == <<now, cnext, crunning, cinflight, cjobrec, clog>>

VARIABLES
    \* ---- handleConnected
    msgState,   \* n.msgState: the message IDs recorded as seen
    timers,     \* the clean-up goroutines waiting on time.After, per ID
    peerstore,  \* the <<peer, address>> pairs added to the peerstore
    hpc,        \* where each invocation of handleConnected is
    hmsg,       \* the message it was called with
    hprofile,   \* how its RequestProfile ended: "none" | "ok" | "failed"
    delivered,  \* messages delivered so far
    nrecorded,  \* per ID: times recorded since the ID was last removed
    nremoved    \* per ID: times removed from msgState

p2pVars == <<msgState, timers, peerstore, hpc, hmsg, hprofile, delivered, nrecorded, nremoved>>

vars == <<cmdVars, runVars, jobVars, startVars, cronVars, p2pVars>>

(***************************************************************************)
(* Bounds                                                                  *)
(***************************************************************************)
MaxFiles == 2
MaxErrLen == 5
MaxExprLen == 3
MaxStarts == 2
MaxTime == 3
MaxAddrs == 1
MaxDeliveries == 2

(***************************************************************************)
(* Helpers                                                                 *)
(***************************************************************************)
Range(s) == {s[i] : i \in 1..Len(s)}

\* all orderings of a finite set, as sequences without repetition
RECURSIVE Orders(_)
Orders(S) ==
    IF S = {} THEN {<<>>}
    ELSE UNION {{<<x>> \o s : s \in Orders(S \ {x})} : x \in S}

(***************************************************************************)
(* cron.Job, cron.DatasetOptions, cron.ShellScriptOptions                  *)
(***************************************************************************)
JTDataset == "dataset"
JTShellScript == "shell"
JTUnknown == "unknown"

\* values a string field takes: unset, or set
TitleVals == {"", "t"}
MessageVals == {"", "m"}
RecallVals == {"", "tf"}
BodyPathVals == {"", "body.csv"}
RepoPathVals == {"", "/repo"}
FileNames == <<"a.json", "b.json", "c.json">>
FilePathVals == {SubSeq(FileNames, 1, n) : n \in 0..MaxFiles}

\* job.Options is an interface value: nil, *DatasetOptions or *ShellScriptOptions
NilOptions == [kind |-> "nil"]
ShellScriptOptions == [kind |-> "ShellScriptOptions"]
DatasetOptions ==
    [kind : {"DatasetOptions"},
     Title : TitleVals, Message : MessageVals, Recall : RecallVals,
     BodyPath : BodyPathVals, FilePaths : FilePathVals,
     Publish : BOOLEAN, Strict : BOOLEAN, Force : BOOLEAN,
     ConvertFormatToPrev : BOOLEAN, ShouldRender : BOOLEAN]

IsDatasetOptions(o) == o.kind = "DatasetOptions"

(***************************************************************************)
(* JobToCmd, datasetSaveCmd, shellScriptCmd                                *)
(***************************************************************************)
NilCmd == [isNil |-> TRUE, Path |-> "", Args |-> <<>>]
Command(path, args) == [isNil |-> FALSE, Path |-> path, Args |-> args]

BoolFlagNames == {"--publish", "--strict", "--force", "--keep-format", "--no-render"}

\* faulty variant: the map literal with --publish always in use
boolFlagsPublishAlways(o) ==
    [flag \in BoolFlagNames |->
        CASE flag = "--publish" -> TRUE
          [] flag = "--strict" -> o.Strict
          [] flag = "--force" -> o.Force
          [] flag = "--keep-format" -> o.ConvertFormatToPrev
          [] flag = "--no-render" -> ~o.ShouldRender]

\* the map literal boolFlags
boolFlags(o) ==
    [flag \in BoolFlagNames |->
        CASE flag = "--publish" -> o.Publish
          [] flag = "--strict" -> o.Strict
          [] flag = "--force" -> o.Force
          [] flag = "--keep-format" -> o.ConvertFormatToPrev
          [] flag = "--no-render" -> ~o.ShouldRender]

\* `for flag, use := range boolFlags { if use { append flag } }`: the language
\* leaves the order in which range visits a map's keys unspecified and the
\* runtime randomises it, so the flags in use are appended in any order
RangeBoolFlags(m) == Orders({flag \in DOMAIN m : m[flag]})

FileArgs(paths) == [i \in 1..Len(paths) |-> "--file=" \o paths[i]]

\* the arguments appended for a *DatasetOptions, `flags` being what the range
\* over boolFlags appended
OptionArgs(o, flags) ==
    (IF o.Title # "" THEN <<"--title=" \o o.Title>> ELSE <<>>)
    \o (IF o.Message # "" THEN <<"--message=" \o o.Message>> ELSE <<>>)
    \o (IF o.Recall # "" THEN <<"--recall=" \o o.Recall>> ELSE <<>>)
    \o (IF o.BodyPath # "" THEN <<"--body=" \o o.BodyPath>> ELSE <<>>)
    \o (IF Len(o.FilePaths) > 0 THEN FileArgs(o.FilePaths) ELSE <<>>)
    \o flags

\* the commands datasetSaveCmd may return for job
datasetSaveCmd(job) ==
    LET base == <<"save", job.Name>>
                \o (IF job.RepoPath # "" THEN <<"--repo=" \o job.RepoPath>> ELSE <<>>)
    IN IF IsDatasetOptions(job.Options)
       THEN {Command("qri", base \o OptionArgs(job.Options, flags)) :
                flags \in RangeBoolFlags(boolFlags(job.Options))}
       ELSE {Command("qri", base)}

shellScriptCmd(job) == {Command(job.Name, <<>>)}

\* faulty variant: a job of any other type is run like a shell script
JobToCmdDefaultShell(job) ==
    CASE job.Type = JTDataset -> datasetSaveCmd(job)
      [] OTHER -> shellScriptCmd(job)

\* the commands JobToCmd may return for job; NilCmd is the nil *exec.Cmd
JobToCmd(job) ==
    CASE job.Type = JTDataset -> datasetSaveCmd(job)
      [] job.Type = JTShellScript -> shellScriptCmd(job)
      [] OTHER -> {NilCmd}

(***************************************************************************)
(* SpecCmd: JobToCmd called, any number of times, on one Job               *)
(***************************************************************************)
CmdJobs ==
    [Name : {"me/ds"}, Type : {JTDataset}, RepoPath : RepoPathVals,
     Options : DatasetOptions \cup {NilOptions, ShellScriptOptions}]
    \cup [Name : {"/bin/true"}, Type : {JTShellScript, JTUnknown}, RepoPath : {""},
          Options : {NilOptions, ShellScriptOptions}]

NoJob == [Name |-> "", Type |-> JTUnknown, RepoPath |-> "", Options |-> NilOptions]

CmdOff == cjob = NoJob /\ ccmd = NilCmd /\ ccalled = FALSE /\ cagree = TRUE

CmdInit == cjob \in CmdJobs /\ ccmd = NilCmd /\ ccalled = FALSE /\ cagree = TRUE

\* one call of JobToCmd(streams, cjob)
BuildCmd ==
    /\ \E cmd \in JobToCmd(cjob) :
        /\ ccmd' = cmd
        /\ cagree' = (cagree /\ (ccalled => cmd = ccmd))
    /\ ccalled' = TRUE
    /\ UNCHANGED cjob

(***************************************************************************)
(* Factory, processJobError                                                *)
(***************************************************************************)
\* text is a sequence of words; the phrase processJobError looks for
NoChangesPhrase == <<"no", "changes", "to", "save">>
Words == {"no", "changes", "to", "save", "error"}
RECURSIVE TextsOfLen(_)
TextsOfLen(n) ==
    IF n = 0 THEN {<<>>} ELSE {Append(t, w) : t \in TextsOfLen(n - 1), w \in Words}
Texts == UNION {TextsOfLen(n) : n \in 0..MaxErrLen}

\* strings.Contains
Contains(text, sub) ==
    \E i \in 0..Len(text) :
        /\ i + Len(sub) <= Len(text)
        /\ SubSeq(text, i + 1, i + Len(sub)) = sub

\* a *bytes.Buffer: nil, or holding text
NilBuf == [isNil |-> TRUE, text |-> <<>>]
Buffer(text) == [isNil |-> FALSE, text |-> text]

\* errors
NoError == "nil"
ErrNoChanges == "no changes to save"
ErrUnrecognized == "unrecognized update type"
ExitCodes == {0, 1}
\* what cmd.Run() returns for a child that exited with `code`
ExitError(code) == IF code = 0 THEN NoError ELSE "exit status 1"

\* faulty variant: the phrase is never looked for
processJobErrorRaw(job, errOut, err) == err

\* faulty variant: the err == nil check is missing
processJobErrorNoNilCheck(job, errOut, err) ==
    IF job.Type = JTDataset /\ ~errOut.isNil /\ Contains(errOut.text, NoChangesPhrase)
    THEN ErrNoChanges
    ELSE err

processJobError(job, errOut, err) ==
    IF err = NoError THEN NoError
    ELSE IF job.Type = JTDataset /\ ~errOut.isNil /\ Contains(errOut.text, NoChangesPhrase)
         THEN ErrNoChanges
         ELSE err

\* the function Factory returns, called with job, whose child process writes
\* child.stderr to cmd.Stderr and exits with child.exit: what it may leave behind
Runner(job, child) ==
    LET tee == job.Type = JTDataset
    IN {IF cmd.isNil
        THEN [cmd |-> cmd, errBuf |-> IF tee THEN Buffer(<<>>) ELSE NilBuf,
              runs |-> 0, result |-> ErrUnrecognized]
        ELSE LET errBuf == IF tee THEN Buffer(child.stderr) ELSE NilBuf
             IN [cmd |-> cmd, errBuf |-> errBuf, runs |-> 1,
                 result |-> processJobError(job, errBuf, ExitError(child.exit))] :
        cmd \in JobToCmd(job)}

\* one invocation of the runner function, with rjob
RunJob ==
    /\ rpc = "ready"
    /\ \E out \in Runner(rjob, rchild) :
        /\ rcmd' = out.cmd
        /\ rerrBuf' = out.errBuf
        /\ rruns' = rruns + out.runs
        /\ rresult' = out.result
    /\ rpc' = "returned"
    /\ UNCHANGED <<rjob, rchild>>

RunJobs ==
    [Name : {"me/ds"}, Type : {JTDataset, JTUnknown}, RepoPath : {""}, Options : {NilOptions}]
    \cup [Name : {"/bin/true"}, Type : {JTShellScript}, RepoPath : {""}, Options : {NilOptions}]

NoChild == [exit |-> 0, stderr |-> <<>>]

RunOff ==
    /\ rjob = NoJob /\ rchild = NoChild /\ rpc = "off" /\ rcmd = NilCmd
    /\ rerrBuf = NilBuf /\ rruns = 0 /\ rresult = NoError

RunInit ==
    /\ rjob \in RunJobs
    /\ rchild \in [exit : ExitCodes, stderr : Texts]
    /\ rpc = "ready" /\ rcmd = NilCmd /\ rerrBuf = NilBuf /\ rruns = 0 /\ rresult = NoError

(***************************************************************************)
(* DatasetToJob, ShellScriptToJob                                          *)
(***************************************************************************)
\* a recurrence expression is the sequence of its "/"-separated components:
\* "R/PT1M" is <<"R", "PT1M">>, "" is <<>>
RepeatTokens == {"R"}
StartTokens == {"2019-01-01T00:00:00Z"}
DurationTokens == {"PT1M"}
ExprTokens == RepeatTokens \cup StartTokens \cup DurationTokens \cup {"junk"}
RECURSIVE ExprsOfLen(_)
ExprsOfLen(n) ==
    IF n = 0 THEN {<<>>} ELSE {Append(e, t) : e \in ExprsOfLen(n - 1), t \in ExprTokens}
Exprs == UNION {ExprsOfLen(n) : n \in 0..MaxExprLen}
EmptyExpr == <<>>

NoInterval == [Repeat |-> "", Start |-> "", Duration |-> ""]

\* iso8601.ParseRepeatingInterval: R[n]/[start/]duration, anything else an error
ParseRepeatingInterval(expr) ==
    IF Len(expr) = 2 /\ expr[1] \in RepeatTokens /\ expr[2] \in DurationTokens
    THEN [err |-> NoError,
          p |-> [Repeat |-> expr[1], Start |-> "", Duration |-> expr[2]]]
    ELSE IF /\ Len(expr) = 3 /\ expr[1] \in RepeatTokens
            /\ expr[2] \in StartTokens /\ expr[3] \in DurationTokens
         THEN [err |-> NoError,
               p |-> [Repeat |-> expr[1], Start |-> expr[2], Duration |-> expr[3]]]
         ELSE [err |-> "invalid repeating interval", p |-> NoInterval]

\* cron.Job.Validate: a job needs a name, a recurrence and a known type
Validate(job) ==
    IF job.Name = "" THEN "name is required"
    ELSE IF job.Periodicity = NoInterval THEN "period is required"
    ELSE IF job.Type \notin {JTDataset, JTShellScript} THEN "invalid job type"
    ELSE NoError

\* a *cron.Job result: nil, or a pointer to a Job
NilJob ==
    [isNil |-> TRUE, Name |-> "", Type |-> JTUnknown, Periodicity |-> NoInterval,
     PrevRunStart |-> "", RepoPath |-> "", Options |-> NilOptions]
NewJob(name, p, type, prev, opts) ==
    [isNil |-> FALSE, Name |-> name, Type |-> type, Periodicity |-> p,
     PrevRunStart |-> prev, RepoPath |-> "", Options |-> opts]

\* ds.Meta: nil, or a meta component
NilMeta == [isNil |-> TRUE, AccrualPeriodicity |-> EmptyExpr]
Meta(ap) == [isNil |-> FALSE, AccrualPeriodicity |-> ap]

DatasetToJob(ds, periodicity, opts) ==
    LET chosen == IF /\ periodicity = EmptyExpr /\ ~ds.Meta.isNil
                     /\ ds.Meta.AccrualPeriodicity # EmptyExpr
                  THEN ds.Meta.AccrualPeriodicity
                  ELSE periodicity
        parsed == ParseRepeatingInterval(chosen)
        job == NewJob(ds.Peername \o "/" \o ds.Name, parsed.p, JTDataset,
                      ds.Commit.Timestamp, opts)
    IN IF chosen = EmptyExpr
       THEN [job |-> NilJob, err |-> "requires a meta component with accrualPeriodicity set"]
       ELSE IF parsed.err # NoError
            THEN [job |-> NilJob, err |-> parsed.err]
            ELSE [job |-> job, err |-> Validate(job)]

ShellScriptToJob(path, periodicity, opts) ==
    LET parsed == ParseRepeatingInterval(periodicity)
        job == NewJob(path, parsed.p, JTShellScript, "", opts)
    IN IF parsed.err # NoError
       THEN [job |-> NilJob, err |-> parsed.err]
       ELSE [job |-> job, err |-> Validate(job)]

\* the arguments of the calls
SomeDatasetOptions ==
    [kind |-> "DatasetOptions", Title |-> "t", Message |-> "", Recall |-> "",
     BodyPath |-> "", FilePaths |-> <<>>, Publish |-> TRUE, Strict |-> FALSE,
     Force |-> FALSE, ConvertFormatToPrev |-> FALSE, ShouldRender |-> TRUE]
Datasets ==
    [Peername : {"", "me"}, Name : {"", "ds"},
     Meta : {NilMeta} \cup {Meta(ap) : ap \in Exprs},
     Commit : [Timestamp : {"2019-06-01T00:00:00Z"}]]
NoDataset ==
    [Peername |-> "", Name |-> "", Meta |-> NilMeta,
     Commit |-> [Timestamp |-> "2019-06-01T00:00:00Z"]]
ScriptPaths == {"", "/bin/true"}

JobCalls ==
    [fn : {"DatasetToJob"}, ds : Datasets, path : {""}, periodicity : Exprs,
     opts : {NilOptions, SomeDatasetOptions}]
    \cup [fn : {"ShellScriptToJob"}, ds : {NoDataset}, path : ScriptPaths,
           periodicity : Exprs, opts : {NilOptions, ShellScriptOptions}]

NoCall ==
    [fn |-> "none", ds |-> NoDataset, path |-> "", periodicity |-> EmptyExpr,
     opts |-> NilOptions]
NoReturn == [job |-> NilJob, err |-> NoError]

JobOff == jcall = NoCall /\ jpc = "off" /\ jret = NoReturn
JobInit == jcall \in JobCalls /\ jpc = "ready" /\ jret = NoReturn

CallDatasetToJob ==
    /\ jpc = "ready" /\ jcall.fn = "DatasetToJob"
    /\ jret' = DatasetToJob(jcall.ds, jcall.periodicity, jcall.opts)
    /\ jpc' = "returned"
    /\ UNCHANGED jcall

CallShellScriptToJob ==
    /\ jpc = "ready" /\ jcall.fn = "ShellScriptToJob"
    /\ jret' = ShellScriptToJob(jcall.path, jcall.periodicity, jcall.opts)
    /\ jpc' = "returned"
    /\ UNCHANGED jcall

(***************************************************************************)
(* Start, start                                                            *)
(***************************************************************************)
Starts == 1..MaxStarts

ErrAlreadyRunning == "service already running"
ErrUnknownCronType == "unknown cron type"

\* updateCfg: nil, or a config with a store type
NilCfg == [isNil |-> TRUE, Type |-> ""]
Cfg(type) == [isNil |-> FALSE, Type |-> type]
\* config.DefaultUpdate
DefaultUpdate == Cfg("fs")
UpdateCfgs == {NilCfg, Cfg("fs"), Cfg("mem"), Cfg("bogus")}

NoArg == [daemonize |-> FALSE, updateCfg |-> NilCfg]

\* cron.HTTPClient.Ping: succeeds only when a service answers at the address
PingResults == IF listening THEN {TRUE, FALSE} ELSE {FALSE}

\* faulty variant: the outcome of the probe is not looked at
AfterPingUnchecked(pingOk, daemonize) ==
    IF daemonize THEN "daemonInstall" ELSE "start"

\* where Start goes once the probe has answered
AfterPing(pingOk, daemonize) ==
    IF pingOk THEN "returned"
    ELSE IF daemonize THEN "daemonInstall" ELSE "start"

StartOff ==
    /\ spc = [p \in Starts |-> "off"]
    /\ sarg = [p \in Starts |-> NoArg]
    /\ sprobe = [p \in Starts |-> "none"]
    /\ sdid = [p \in Starts |-> {}]
    /\ sret = [p \in Starts |-> NoError]
    /\ listening = FALSE

StartInit ==
    /\ spc = [p \in Starts |-> "idle"]
    /\ sarg = [p \in Starts |-> NoArg]
    /\ sprobe = [p \in Starts |-> "none"]
    /\ sdid = [p \in Starts |-> {}]
    /\ sret = [p \in Starts |-> NoError]
    /\ listening \in BOOLEAN

\* Start is called: a nil updateCfg is replaced by the default
CallStart(p) ==
    /\ spc[p] = "idle"
    /\ \E d \in BOOLEAN, c \in UpdateCfgs :
        sarg' = [sarg EXCEPT ![p] =
                    [daemonize |-> d, updateCfg |-> IF c.isNil THEN DefaultUpdate ELSE c]]
    /\ spc' = [spc EXCEPT ![p] = "Ping"]
    /\ UNCHANGED <<sprobe, sdid, sret, listening>>

\* httpCli.Ping() and the return on its success
StartPing(p) ==
    /\ spc[p] = "Ping"
    /\ \E ok \in PingResults :
        /\ sprobe' = [sprobe EXCEPT ![p] = IF ok THEN "ok" ELSE "failed"]
        /\ spc' = [spc EXCEPT ![p] = AfterPing(ok, sarg[p].daemonize)]
        /\ sret' = [sret EXCEPT ![p] = IF ok THEN ErrAlreadyRunning ELSE @]
    /\ UNCHANGED <<sarg, sdid, listening>>

\* return daemonInstall(repoPath)
StartDaemonInstall(p) ==
    /\ spc[p] = "daemonInstall"
    /\ sdid' = [sdid EXCEPT ![p] = @ \cup {"daemonInstall"}]
    /\ \E err \in {NoError, "daemon install failed"} : sret' = [sret EXCEPT ![p] = err]
    /\ spc' = [spc EXCEPT ![p] = "returned"]
    /\ UNCHANGED <<sarg, sprobe, listening>>

\* start: Path, then the job store and the log store the config names
startStores(p) ==
    /\ spc[p] = "start"
    /\ \E mkdirOk \in BOOLEAN :
        IF ~mkdirOk
        THEN /\ sret' = [sret EXCEPT ![p] = "mkdir failed"]
             /\ spc' = [spc EXCEPT ![p] = "returned"]
             /\ UNCHANGED sdid
        ELSE IF sarg[p].updateCfg.Type \in {"fs", "mem"}
             THEN /\ sdid' = [sdid EXCEPT ![p] = @ \cup {"Path", "jobStore", "logStore"}]
                  /\ spc' = [spc EXCEPT ![p] = "NewCron"]
                  /\ UNCHANGED sret
             ELSE /\ sdid' = [sdid EXCEPT ![p] = @ \cup {"Path"}]
                  /\ sret' = [sret EXCEPT ![p] = ErrUnknownCronType]
                  /\ spc' = [spc EXCEPT ![p] = "returned"]
    /\ UNCHANGED <<sarg, sprobe, listening>>

\* start: NewCron, the goroutine serving HTTP is launched, svc.Start is entered
startService(p) ==
    /\ spc[p] = "NewCron"
    /\ sdid' = [sdid EXCEPT ![p] = @ \cup {"go ServeHTTP", "svc.Start"}]
    /\ spc' = [spc EXCEPT ![p] = "svc.Start"]
    /\ UNCHANGED <<sarg, sprobe, sret, listening>>

\* the goroutine: svc.ServeHTTP binds the address, or fails and logs
ServeHTTP(p) ==
    /\ "go ServeHTTP" \in sdid[p] /\ "bound" \notin sdid[p] /\ "bind failed" \notin sdid[p]
    /\ IF listening
       THEN /\ sdid' = [sdid EXCEPT ![p] = @ \cup {"bind failed"}]
            /\ UNCHANGED listening
       ELSE /\ sdid' = [sdid EXCEPT ![p] = @ \cup {"bound"}]
            /\ listening' = TRUE
    /\ UNCHANGED <<spc, sarg, sprobe, sret>>

\* ctx is cancelled: svc.Start returns, and with it start and Start
StartCtxDone(p) ==
    /\ spc[p] = "svc.Start"
    /\ spc' = [spc EXCEPT ![p] = "returned"]
    /\ UNCHANGED <<sarg, sprobe, sdid, sret, listening>>

(***************************************************************************)
(* The scheduler loop (cron.Cron.Start) run with Factory's runner          *)
(***************************************************************************)
CronJobs ==
    {[Name |-> "me/ds", Type |-> JTDataset, RepoPath |-> "", Options |-> NilOptions],
     [Name |-> "/bin/true", Type |-> JTShellScript, RepoPath |-> "", Options |-> NilOptions]}
JobNames == {job.Name : job \in CronJobs}
JobNamed(name) == CHOOSE job \in CronJobs : job.Name = name

\* each job's recurrence rule, as the interval between due instants
Interval == [name \in JobNames |-> IF name = "me/ds" THEN 2 ELSE 1]
\* Rule.Next
RuleNext(name, after) == after + Interval[name]

\* what a job's child process may do
CronChildren == [exit : ExitCodes, stderr : {<<>>, NoChangesPhrase}]

NoRun == [RunNumber |-> 0, RunStart |-> 0, RunStop |-> 0, RunError |-> ""]

\* faulty variant: a job that is Running is not skipped
DueEvenIfRunning(name) == cnext[name] <= now

\* the job is dispatched on this wake cycle
Due(name) == ~crunning[name] /\ cnext[name] <= now

CronOff ==
    /\ now = 0
    /\ cnext = [name \in JobNames |-> 0]
    /\ crunning = [name \in JobNames |-> FALSE]
    /\ cinflight = [name \in JobNames |-> 0]
    /\ cjobrec = [name \in JobNames |-> NoRun]
    /\ clog = [name \in JobNames |-> <<>>]

CronInit ==
    /\ now = 0
    /\ cnext = [name \in JobNames |-> RuleNext(name, 0)]
    /\ crunning = [name \in JobNames |-> FALSE]
    /\ cinflight = [name \in JobNames |-> 0]
    /\ cjobrec = [name \in JobNames |-> NoRun]
    /\ clog = [name \in JobNames |-> <<>>]

\* time passes
Tick ==
    /\ now < MaxTime
    /\ now' = now + 1
    /\ UNCHANGED <<cnext, crunning, cinflight, cjobrec, clog>>

\* the loop wakes: every due job becomes Running, its run number and start
\* are persisted and the Runner is invoked asynchronously
Wake ==
    /\ \E name \in JobNames : Due(name)
    /\ crunning' = [name \in JobNames |-> crunning[name] \/ Due(name)]
    /\ cinflight' = [name \in JobNames |->
                        IF Due(name) THEN cinflight[name] + 1 ELSE cinflight[name]]
    /\ cjobrec' = [name \in JobNames |->
                      IF Due(name)
                      THEN [cjobrec[name] EXCEPT !.RunNumber = @ + 1, !.RunStart = now]
                      ELSE cjobrec[name]]
    /\ UNCHANGED <<now, cnext, clog>>

\* a Runner invocation returns: stop and error are stamped, the run record is
\* appended, the next due instant is computed from the run's start
Complete(name) ==
    /\ cinflight[name] > 0
    /\ \E child \in CronChildren : \E out \in Runner(JobNamed(name), child) :
        LET runError == IF out.result \in {NoError, ErrNoChanges} THEN "" ELSE out.result
            rec == [cjobrec[name] EXCEPT !.RunStop = now, !.RunError = runError]
        IN /\ cjobrec' = [cjobrec EXCEPT ![name] = rec]
           /\ clog' = [clog EXCEPT ![name] = Append(@, rec)]
           /\ cnext' = [cnext EXCEPT ![name] = RuleNext(name, rec.RunStart)]
    /\ cinflight' = [cinflight EXCEPT ![name] = @ - 1]
    /\ crunning' = [crunning EXCEPT ![name] = FALSE]
    /\ UNCHANGED now

(***************************************************************************)
(* pinfoPod.Decode, QriNode.handleConnected                                *)
(***************************************************************************)
\* streams handleConnected is invoked on, one per remote peer
Streams == {"peerA", "peerB"}
MsgIDs == {"m1", "m2"}

\* peer.IDB58Decode and ma.NewMultiaddr accept these
ValidPeerIDs == {"QmPeer"}
ValidMultiaddrs == {"/ip4/10.0.0.1/tcp/4001"}
PodIDs == ValidPeerIDs \cup {"not-base58"}
PodAddrs == ValidMultiaddrs \cup {"not-a-multiaddr"}
RECURSIVE AddrListsOfLen(_)
AddrListsOfLen(n) ==
    IF n = 0 THEN {<<>>} ELSE {Append(l, a) : l \in AddrListsOfLen(n - 1), a \in PodAddrs}
AddrLists == UNION {AddrListsOfLen(n) : n \in 0..MaxAddrs}

\* a message body: bytes that are not JSON, or the JSON of a pinfoPod
NoPod == [ID |-> "", Addrs |-> <<>>]
Garbage == [json |-> FALSE, pod |-> NoPod]
Bodies == {Garbage} \cup [json : {TRUE}, pod : [ID : PodIDs, Addrs : AddrLists]]
Messages == [ID : MsgIDs, Body : Bodies]
NoMessage == [ID |-> "", Body |-> Garbage]

NoPeerInfo == [ID |-> "", Addrs |-> <<>>]

\* the loop of pinfoPod.Decode over pod.Addrs[i..]
RECURSIVE DecodeAddrs(_, _, _)
DecodeAddrs(addrs, i, acc) ==
    IF i > Len(addrs) THEN [err |-> NoError, Addrs |-> acc]
    ELSE IF addrs[i] \notin ValidMultiaddrs
         THEN [err |-> "invalid multiaddr", Addrs |-> acc]
         ELSE DecodeAddrs(addrs, i + 1, Append(acc, addrs[i]))

\* pinfoPod.Decode
Decode(pod) ==
    IF pod.ID \notin ValidPeerIDs
    THEN [err |-> "invalid peer id", pi |-> NoPeerInfo]
    ELSE LET r == DecodeAddrs(pod.Addrs, 1, <<>>)
         IN [err |-> r.err, pi |-> [ID |-> pod.ID, Addrs |-> r.Addrs]]

\* json.Unmarshal(msg.Body, &pip) followed by pip.Decode()
DecodeBody(body) ==
    IF ~body.json THEN [err |-> "invalid json", pi |-> NoPeerInfo] ELSE Decode(body.pod)

\* faulty variant: the error of RequestProfile is logged and the handler goes on
AfterRequestProfileIgnoringErr(ok) == "Store"

\* where handleConnected goes once RequestProfile has returned
AfterRequestProfile(ok) == IF ok THEN "Store" ELSE "idle"

P2POff ==
    /\ msgState = {} /\ timers = [id \in MsgIDs |-> 0] /\ peerstore = {}
    /\ hpc = [h \in Streams |-> "off"]
    /\ hmsg = [h \in Streams |-> NoMessage]
    /\ hprofile = [h \in Streams |-> "none"]
    /\ delivered = 0
    /\ nrecorded = [id \in MsgIDs |-> 0]
    /\ nremoved = [id \in MsgIDs |-> 0]

P2PInit ==
    /\ msgState = {} /\ timers = [id \in MsgIDs |-> 0] /\ peerstore = {}
    /\ hpc = [h \in Streams |-> "idle"]
    /\ hmsg = [h \in Streams |-> NoMessage]
    /\ hprofile = [h \in Streams |-> "none"]
    /\ delivered = 0
    /\ nrecorded = [id \in MsgIDs |-> 0]
    /\ nremoved = [id \in MsgIDs |-> 0]

\* the handler returns
Return(h) ==
    /\ hmsg' = [hmsg EXCEPT ![h] = NoMessage]
    /\ hprofile' = [hprofile EXCEPT ![h] = "none"]

\* a "connected" message arrives on stream h and handleConnected is invoked
Deliver(h) ==
    /\ hpc[h] = "idle" /\ delivered < MaxDeliveries
    /\ \E msg \in Messages : hmsg' = [hmsg EXCEPT ![h] = msg]
    /\ hpc' = [hpc EXCEPT ![h] = "Load"]
    /\ delivered' = delivered + 1
    /\ UNCHANGED <<msgState, timers, peerstore, hprofile, nrecorded, nremoved>>

\* n.msgState.Load(msg.ID): bail early if the ID is recorded
Load(h) ==
    /\ hpc[h] = "Load"
    /\ IF hmsg[h].ID \in msgState
       THEN hpc' = [hpc EXCEPT ![h] = "idle"] /\ Return(h)
       ELSE hpc' = [hpc EXCEPT ![h] = "Decode"] /\ UNCHANGED <<hmsg, hprofile>>
    /\ UNCHANGED <<msgState, timers, peerstore, delivered, nrecorded, nremoved>>

\* the body is decoded; on success the addresses go to the peerstore
DecodeAndAddAddrs(h) ==
    /\ hpc[h] = "Decode"
    /\ LET d == DecodeBody(hmsg[h].Body)
       IN IF d.err # NoError
          THEN hpc' = [hpc EXCEPT ![h] = "idle"] /\ Return(h) /\ UNCHANGED peerstore
          ELSE /\ peerstore' = peerstore \cup {<<d.pi.ID, a>> : a \in Range(d.pi.Addrs)}
               /\ hpc' = [hpc EXCEPT ![h] = "RequestProfile"]
               /\ UNCHANGED <<hmsg, hprofile>>
    /\ UNCHANGED <<msgState, timers, delivered, nrecorded, nremoved>>

\* n.RequestProfile(pinfo.ID) returns, with or without an error
RequestProfile(h) ==
    /\ hpc[h] = "RequestProfile"
    /\ \E ok \in BOOLEAN :
        /\ hpc' = [hpc EXCEPT ![h] = AfterRequestProfile(ok)]
        /\ IF AfterRequestProfile(ok) = "idle"
           THEN Return(h)
           ELSE /\ hprofile' = [hprofile EXCEPT ![h] = IF ok THEN "ok" ELSE "failed"]
                /\ UNCHANGED hmsg
    /\ UNCHANGED <<msgState, timers, peerstore, delivered, nrecorded, nremoved>>

\* n.msgState.Store(msg.ID, true) and the goroutine that will delete the ID
Store(h) ==
    /\ hpc[h] = "Store"
    /\ msgState' = msgState \cup {hmsg[h].ID}
    /\ timers' = [timers EXCEPT ![hmsg[h].ID] = @ + 1]
    /\ nrecorded' = [nrecorded EXCEPT ![hmsg[h].ID] = @ + 1]
    /\ hpc' = [hpc EXCEPT ![h] = "idle"]
    /\ Return(h)
    /\ UNCHANGED <<peerstore, delivered, nremoved>>

\* a minute has passed for one clean-up goroutine: n.msgState.Delete(id)
Expire(id) ==
    /\ timers[id] > 0
    /\ timers' = [timers EXCEPT ![id] = @ - 1]
    /\ msgState' = msgState \ {id}
    /\ nrecorded' = [nrecorded EXCEPT ![id] = 0]
    /\ nremoved' = [nremoved EXCEPT ![id] = IF id \in msgState THEN @ + 1 ELSE @]
    /\ UNCHANGED <<peerstore, hpc, hmsg, hprofile, delivered>>

\* a step of a running handler
HandlerStep(h) == Load(h) \/ DecodeAndAddAddrs(h) \/ RequestProfile(h) \/ Store(h)

(***************************************************************************)
(* The specifications                                                      *)
(***************************************************************************)
ButCmd == UNCHANGED <<runVars, jobVars, startVars, cronVars, p2pVars>>
ButRun == UNCHANGED <<cmdVars, jobVars, startVars, cronVars, p2pVars>>
ButJob == UNCHANGED <<cmdVars, runVars, startVars, cronVars, p2pVars>>
ButStart == UNCHANGED <<cmdVars, runVars, jobVars, cronVars, p2pVars>>
ButCron == UNCHANGED <<cmdVars, runVars, jobVars, startVars, p2pVars>>
ButP2P == UNCHANGED <<cmdVars, runVars, jobVars, startVars, cronVars>>

InitCmd == CmdInit /\ RunOff /\ JobOff /\ StartOff /\ CronOff /\ P2POff
NextCmd == BuildCmd /\ ButCmd
SpecCmd == InitCmd /\ [][NextCmd]_vars

InitRun == RunInit /\ CmdOff /\ JobOff /\ StartOff /\ CronOff /\ P2POff
NextRun == RunJob /\ ButRun
SpecRun == InitRun /\ [][NextRun]_vars

InitJob == JobInit /\ CmdOff /\ RunOff /\ StartOff /\ CronOff /\ P2POff
NextJob ==
    \/ CallDatasetToJob /\ ButJob
    \/ CallShellScriptToJob /\ ButJob
SpecJob == InitJob /\ [][NextJob]_vars

InitStart == StartInit /\ CmdOff /\ RunOff /\ JobOff /\ CronOff /\ P2POff
NextStart ==
    \/ \E p \in Starts : CallStart(p) /\ ButStart
    \/ \E p \in Starts : StartPing(p) /\ ButStart
    \/ \E p \in Starts : StartDaemonInstall(p) /\ ButStart
    \/ \E p \in Starts : startStores(p) /\ ButStart
    \/ \E p \in Starts : startService(p) /\ ButStart
    \/ \E p \in Starts : ServeHTTP(p) /\ ButStart
    \/ \E p \in Starts : StartCtxDone(p) /\ ButStart
SpecStart == InitStart /\ [][NextStart]_vars

InitCron == CronInit /\ CmdOff /\ RunOff /\ JobOff /\ StartOff /\ P2POff
NextCron ==
    \/ Tick /\ ButCron
    \/ Wake /\ ButCron
    \/ \E name \in JobNames : Complete(name) /\ ButCron
SpecCron == InitCron /\ [][NextCron]_vars

InitP2P == P2PInit /\ CmdOff /\ RunOff /\ JobOff /\ StartOff /\ CronOff
NextP2P ==
    \/ \E h \in Streams : Deliver(h) /\ ButP2P
    \/ \E h \in Streams : Load(h) /\ ButP2P
    \/ \E h \in Streams : DecodeAndAddAddrs(h) /\ ButP2P
    \/ \E h \in Streams : RequestProfile(h) /\ ButP2P
    \/ \E h \in Streams : Store(h) /\ ButP2P
    \/ \E id \in MsgIDs : Expire(id) /\ ButP2P
\* a handler that was invoked runs on, and time.After fires: the Go scheduler
\* and timers see to both; nothing makes further messages arrive
FairP2P ==
    /\ \A h \in Streams : WF_vars(HandlerStep(h) /\ ButP2P)
    /\ \A id \in MsgIDs : WF_vars(Expire(id) /\ ButP2P)
SpecP2P == InitP2P /\ [][NextP2P]_vars /\ FairP2P

\* ---- what the claims about Start speak of
\* C1: whenever the probe succeeds, Start returns the already-running error
\* and does nothing else, whatever daemonize is; and no step is taken before
\* the probe has been made and has failed.
C1_AlreadyRunning ==
    \A p \in Starts :
        /\ sprobe[p] = "ok" =>
              (spc[p] = "returned" /\ sret[p] = ErrAlreadyRunning /\ sdid[p] = {})
        /\ sdid[p] # {} => sprobe[p] = "failed"
        /\ spc[p] \in {"daemonInstall", "start", "NewCron", "svc.Start"} => sprobe[p] = "failed"

\* a second Start, against the address the first one serves, was refused
C1_Witness ==
    \E p, q \in Starts :
        /\ p # q /\ "bound" \in sdid[q] /\ spc[q] = "svc.Start"
        /\ sprobe[p] = "ok" /\ sret[p] = ErrAlreadyRunning /\ sdid[p] = {}

\* ---- what the claims about the scheduler speak of
\* C7: no job has two Runner invocations in flight; a Running job is skipped
\* until its Runner returns, so each run of a job starts no earlier than the
\* job's previous run stopped.
C7_OneRunPerJob ==
    \A name \in JobNames :
        /\ cinflight[name] <= 1
        /\ crunning[name] <=> cinflight[name] = 1
        /\ \A i \in 1..Len(clog[name]) :
              /\ clog[name][i].RunStart <= clog[name][i].RunStop
              /\ i > 1 => clog[name][i].RunStart >= clog[name][i - 1].RunStop
        /\ (crunning[name] /\ Len(clog[name]) > 0) =>
              cjobrec[name].RunStart >= clog[name][Len(clog[name])].RunStop

\* two different jobs run at once, one of them in its second run
C7_Witness ==
    \E a, b \in JobNames :
        /\ a # b /\ cinflight[a] = 1 /\ cinflight[b] = 1
        /\ Len(clog[a]) >= 1 /\ cjobrec[a].RunNumber = 2

\* ---- what the claims about the constructors speak of
JobReturned == jpc = "returned"
\* the expression the constructor goes by
JobChosenExpr ==
    IF /\ jcall.fn = "DatasetToJob" /\ jcall.periodicity = EmptyExpr
       /\ ~jcall.ds.Meta.isNil
    THEN jcall.ds.Meta.AccrualPeriodicity
    ELSE jcall.periodicity
JobBadRecurrence ==
    JobChosenExpr = EmptyExpr \/ ParseRepeatingInterval(JobChosenExpr).err # NoError

\* C6: a constructor given an empty or unparsable recurrence returns an error
\* and no Job; and whenever a constructor returns an error, a Validate failure
\* included, it returns no Job.
C6_NoJobOnError ==
    JobReturned =>
        /\ JobBadRecurrence => (jret.err # NoError /\ jret.job.isNil)
        /\ jret.err # NoError => jret.job.isNil

\* the part of C6 about the recurrence alone
C6_BadRecurrenceRejected ==
    JobReturned => (JobBadRecurrence => (jret.err # NoError /\ jret.job.isNil))

\* ---- what the claims about the runner speak of
RunReturned == rpc = "returned"
ChildFailed == rchild.exit # 0
ChildWrotePhrase == Contains(rchild.stderr, NoChangesPhrase)

\* C2: a Dataset job whose child exits non-zero with "no changes to save" in
\* its captured standard error is reported as NoChanges, not as the raw
\* process failure.
C2_NoChanges ==
    (RunReturned /\ rjob.Type = JTDataset /\ ChildFailed /\ ChildWrotePhrase)
        => (rresult = ErrNoChanges /\ rresult # ExitError(rchild.exit))

\* such a job ran, the phrase in the middle of other output
C2_Witness ==
    /\ RunReturned /\ rjob.Type = JTDataset /\ ChildFailed
    /\ rchild.stderr = <<"error">> \o NoChangesPhrase
    /\ rresult = ErrNoChanges

\* C5: a job of any other type than Dataset and ShellScript gets no command and
\* the runner fails with the unrecognized-type error, running no child;
\* a Dataset or ShellScript job gets a command and cmd.Run() is called once.
C5_UnknownType ==
    RunReturned =>
        IF rjob.Type \in {JTDataset, JTShellScript}
        THEN ~rcmd.isNil /\ rruns = 1
        ELSE rcmd.isNil /\ rruns = 0 /\ rresult = ErrUnrecognized

\* a job of unknown type was refused
C5_Witness ==
    RunReturned /\ rjob.Type = JTUnknown /\ rresult = ErrUnrecognized /\ rruns = 0

\* C8: a ShellScript job that exits non-zero is reported with the process
\* error even when its stderr holds the phrase (stderr is captured for Dataset
\* jobs only); a Dataset job that exits non-zero without the phrase is
\* reported with the process error; a job that exits zero yields no error
\* whatever it wrote.
C8_OnlyDatasetNoChanges ==
    RunReturned =>
        /\ (rerrBuf.isNil <=> rjob.Type # JTDataset)
        /\ (rjob.Type = JTShellScript /\ ChildFailed)
              => rresult = ExitError(rchild.exit)
        /\ (rjob.Type = JTDataset /\ ChildFailed /\ ~ChildWrotePhrase)
              => rresult = ExitError(rchild.exit)
        /\ (rjob.Type \in {JTDataset, JTShellScript} /\ ~ChildFailed)
              => rresult = NoError
        /\ rresult = ErrNoChanges
              => (rjob.Type = JTDataset /\ ChildFailed /\ ChildWrotePhrase)

\* a ShellScript job failed with the phrase on stderr and kept its raw error
C8_Witness ==
    /\ RunReturned /\ rjob.Type = JTShellScript /\ ChildFailed /\ ChildWrotePhrase
    /\ rresult = ExitError(rchild.exit)

\* ---- what the claims about command construction speak of
CmdArgs == ccmd.Args
CmdFlags == Range(SubSeq(CmdArgs, 3, Len(CmdArgs)))
CmdHasOptions == IsDatasetOptions(cjob.Options)
CmdDatasetBuilt == ccalled /\ cjob.Type = JTDataset

\* the number of arguments the option set calls for, --no-render left out
CmdWantedArgs ==
    (IF cjob.RepoPath # "" THEN 1 ELSE 0)
    + (IF CmdHasOptions
       THEN LET o == cjob.Options
            IN (IF o.Title # "" THEN 1 ELSE 0) + (IF o.Message # "" THEN 1 ELSE 0)
               + (IF o.Recall # "" THEN 1 ELSE 0) + (IF o.BodyPath # "" THEN 1 ELSE 0)
               + Len(o.FilePaths)
               + (IF o.Publish THEN 1 ELSE 0) + (IF o.Strict THEN 1 ELSE 0)
               + (IF o.Force THEN 1 ELSE 0) + (IF o.ConvertFormatToPrev THEN 1 ELSE 0)
       ELSE 0)

\* save <Name> first; every flag but --no-render present exactly when its
\* backing field is non-empty/true
CmdFlagsButNoRender ==
    /\ ~ccmd.isNil /\ ccmd.Path = "qri"
    /\ Len(CmdArgs) >= 2 /\ CmdArgs[1] = "save" /\ CmdArgs[2] = cjob.Name
    /\ \A v \in RepoPathVals :
          ("--repo=" \o v) \in CmdFlags <=> (v # "" /\ cjob.RepoPath = v)
    /\ \A v \in TitleVals :
          ("--title=" \o v) \in CmdFlags <=> (v # "" /\ CmdHasOptions /\ cjob.Options.Title = v)
    /\ \A v \in MessageVals :
          ("--message=" \o v) \in CmdFlags <=> (v # "" /\ CmdHasOptions /\ cjob.Options.Message = v)
    /\ \A v \in RecallVals :
          ("--recall=" \o v) \in CmdFlags <=> (v # "" /\ CmdHasOptions /\ cjob.Options.Recall = v)
    /\ \A v \in BodyPathVals :
          ("--body=" \o v) \in CmdFlags <=> (v # "" /\ CmdHasOptions /\ cjob.Options.BodyPath = v)
    /\ \A v \in Range(FileNames) \cup {""} :
          ("--file=" \o v) \in CmdFlags <=> (CmdHasOptions /\ v \in Range(cjob.Options.FilePaths))
    /\ "--publish" \in CmdFlags <=> (CmdHasOptions /\ cjob.Options.Publish)
    /\ "--strict" \in CmdFlags <=> (CmdHasOptions /\ cjob.Options.Strict)
    /\ "--force" \in CmdFlags <=> (CmdHasOptions /\ cjob.Options.Force)
    /\ "--keep-format" \in CmdFlags <=> (CmdHasOptions /\ cjob.Options.ConvertFormatToPrev)

CmdOptionsAllEmpty ==
    /\ cjob.RepoPath = ""
    /\ CmdHasOptions =>
          LET o == cjob.Options
          IN /\ o.Title = "" /\ o.Message = "" /\ o.Recall = "" /\ o.BodyPath = ""
             /\ o.FilePaths = <<>>
             /\ ~o.Publish /\ ~o.Strict /\ ~o.Force /\ ~o.ConvertFormatToPrev
             /\ ~o.ShouldRender

\* C3: two calls of JobToCmd on identical Job values return identical argument
\* vectors, the relative order of the boolean flags included.
C3_Deterministic == cagree

\* C4, as first stated: for a Dataset job the arguments start with save <Name>, each
\* flag is present iff its backing field is non-empty/true (--no-render iff
\* shouldRender), and a job whose option fields are all empty/false, RepoPath
\* empty, yields exactly save <Name>.
C4_MinimalAsClaimed ==
    CmdDatasetBuilt =>
        /\ CmdFlagsButNoRender
        /\ "--no-render" \in CmdFlags <=> (CmdHasOptions /\ cjob.Options.ShouldRender)
        /\ CmdOptionsAllEmpty => CmdArgs = <<"save", cjob.Name>>

\* C4, as it holds: as above, but --no-render is present iff the job carries
\* DatasetOptions whose ShouldRender is false; nothing else is in the vector.
\* So all-empty DatasetOptions yield save <Name> --no-render, and only a job
\* with no DatasetOptions yields exactly save <Name>.
C4_Minimal ==
    CmdDatasetBuilt =>
        /\ CmdFlagsButNoRender
        /\ "--no-render" \in CmdFlags <=> (CmdHasOptions /\ ~cjob.Options.ShouldRender)
        /\ Len(CmdArgs) = 2 + CmdWantedArgs
                           + (IF CmdHasOptions /\ ~cjob.Options.ShouldRender THEN 1 ELSE 0)
        /\ (CmdOptionsAllEmpty /\ CmdHasOptions) => CmdArgs = <<"save", cjob.Name, "--no-render">>
        /\ (CmdOptionsAllEmpty /\ ~CmdHasOptions) => CmdArgs = <<"save", cjob.Name>>

\* a Dataset job with all-empty DatasetOptions was turned into a command
C4_Witness ==
    /\ CmdDatasetBuilt /\ CmdHasOptions /\ CmdOptionsAllEmpty
    /\ CmdArgs = <<"save", cjob.Name, "--no-render">>

\* ---- what the claims about handleConnected speak of
\* C9: whatever the interleaving of handleConnected invocations, a message ID
\* is processed to the end (addresses added, profile requested, ID recorded)
\* at most once until the ID is removed from msgState.
C9_ProcessedOnce == \A id \in MsgIDs : nrecorded[id] <= 1

\* an ID enters msgState only by the Store of an invocation whose body decoded
\* and whose profile request succeeded; an invocation that returns early
\* leaves msgState as it was
RecordedOnlyOnSuccess ==
    /\ \A id \in msgState' \ msgState :
          \E h \in Streams :
              /\ hpc[h] = "Store" /\ hpc'[h] = "idle" /\ hmsg[h].ID = id
              /\ DecodeBody(hmsg[h].Body).err = NoError
              /\ hprofile[h] = "ok"
    /\ \A h \in Streams :
          (hpc[h] \in {"Load", "Decode", "RequestProfile"} /\ hpc'[h] = "idle")
              => msgState' = msgState
\* every recorded ID has a clean-up goroutine waiting to delete it
CleanupPending == \A id \in msgState : timers[id] > 0
\* an invocation that loads an ID that is not recorded goes on to process it
ProcessedWhenAbsent ==
    \A h \in Streams :
        (hpc[h] = "Load" /\ hpc'[h] # "Load" /\ hmsg[h].ID \notin msgState)
            => hpc'[h] = "Decode"

\* C10: msgState records an ID only after the body decoded and the profile
\* request succeeded; every recorded ID is eventually removed by its clean-up
\* goroutine, so msgState eventually stays empty once messages stop arriving;
\* and a message with an ID that was removed is processed again.
C10_BoundedInTime ==
    /\ [][RecordedOnlyOnSuccess /\ ProcessedWhenAbsent]_vars
    /\ []CleanupPending
    /\ \A id \in MsgIDs : (id \in msgState) ~> (id \notin msgState)
    /\ <>[](msgState = {})

\* an ID that was recorded and removed is recorded again
C10_Witness ==
    \E id \in MsgIDs : nremoved[id] >= 1 /\ id \in msgState /\ nrecorded[id] = 1

=============================================================================
